---- MODULE Spec2Model ----
(***************************************************************************)
(* A model of the `script` utility of src/src/uu/script/src/script.rs:     *)
(* uumain / uu_app (argument parsing), run_script (sink opening, terminal  *)
(* setup, fork), the child executor, and handle_io (the select loop that   *)
(* relays stdin -> pty and pty -> stdout/transcript/logs).                 *)
(*                                                                         *)
(* Byte streams are kept by position: the k-th byte that arrives on a      *)
(* stream is the byte (session, stream, k), and the content of a file or   *)
(* queue is a sequence of maximal runs [sess, src, lo, hi] of such bytes.  *)
(* The timing file is text and is kept as a sequence of characters.        *)
(* Time is the monotonic clock in microseconds.                            *)
(***************************************************************************)
EXTENDS Integers, Sequences, FiniteSets, TLC

(* ------------------------------ bounds -------------------------------- *)
MaxChildWrites == 2      \* writes the child makes to the pty per session
MaxStdinChunks == 1      \* chunks of data that arrive on stdin per session
MaxSignals == 1          \* SIGUSR1 deliveries per session
MaxTime == 1250000       \* the clock stops advancing here (microseconds)
PtyInputCap == 1000      \* bytes the pty holds for the child to read
MaxSessions == 2         \* runs of the program against the same files

(* ------------------------- program constants -------------------------- *)
BUFFER_LEN == 1024           \* let mut buffer = [0u8; 1024]
STDIN_BUFFER_LEN == 1024     \* let mut stdin_buffer = [0u8; 1024]
SIGTERM == 15                \* libc::SIGTERM
SIGNAL_BASE == 128           \* exit_status = 128 + WTERMSIG(status)
KIB == 1024                  \* ("K", 1024)

NoLimit == -1                \* output_limit: None

(* sizes the environment picks from *)
WriteSizes == {1023, 1024}        \* child write sizes
StdinSizes == {1, 1024}           \* stdin chunk sizes
ClockSteps == {0, 1250000}        \* time that passes between two clock reads

(* ------------------------------ sinks ---------------------------------- *)
OUT == "out_file"
LOG_IN == "log_in_file"
LOG_OUT == "log_out_file"
LOG_IO == "log_io_file"
TIMING == "timing_file"

\* LogFiles, in the order run_script opens them
SinkOrder == <<OUT, LOG_IN, LOG_OUT, LOG_IO, TIMING>>
Sinks == {SinkOrder[i] : i \in 1..Len(SinkOrder)}
DataSinks == Sinks \ {TIMING}

VARIABLES
    args,          \* the command line given to uumain
    options,       \* ScriptOptions built by uumain
    pc,            \* where the parent process is
    exit_code,     \* the process exit code (uucore's set_exit_code / Err(1))
    session,       \* number of the running session (1, 2, ...)
    fs,            \* the files on disk: name -> [exists, nlink, data]
    log_files,     \* LogFiles: the sinks that are open
    nflush,        \* sink -> number of flush() calls made on it
    world,         \* the environment of the run: terminal, failing steps, budgets
    prior,         \* the files as they were when the session started
    tty,           \* [isatty, echo, termios, slave_echo, pty, nonblock]
    notices,       \* the start / done messages printed
    child,         \* [pc, status, ctty, image]: the forked child
    pty_out,       \* child -> parent queue: [w, r] bytes written / read
    pty_in,        \* parent -> child queue: [data, taken]
    stdin,         \* the caller's input: [w, r, eof]
    stdout_data,   \* bytes written to the caller's stdout
    FLUSH_LOGS,    \* the flag set by handle_sigusr1
    io,            \* handle_io's locals
    result,        \* what handle_io returned
    now,           \* Instant::now()
    env            \* the signals, child writes and stdin chunks still to come; kills sent

vars == <<args, options, pc, exit_code, session, fs, log_files, nflush, world, prior,
          tty, notices, child, pty_out, pty_in, stdin, stdout_data, FLUSH_LOGS,
          io, result, now, env>>

(* --------------------------- byte sequences ---------------------------- *)
Min(a, b) == IF a < b THEN a ELSE b

Run(sess, src, lo, hi) == [sess |-> sess, src |-> src, lo |-> lo, hi |-> hi]

\* data followed by the bytes lo..hi of stream src (nothing if hi < lo)
AppendRun(data, r) ==
    IF r.hi < r.lo THEN data
    ELSE IF /\ Len(data) > 0
            /\ data[Len(data)].sess = r.sess
            /\ data[Len(data)].src = r.src
            /\ data[Len(data)].hi + 1 = r.lo
         THEN [data EXCEPT ![Len(data)].hi = r.hi]
         ELSE Append(data, r)

RECURSIVE SizeOf(_)
SizeOf(data) ==
    IF data = <<>> THEN 0
    ELSE (data[1].hi - data[1].lo + 1) + SizeOf(Tail(data))

\* the first n bytes of run r, and what is left of it
TakeRun(r, n) == [r EXCEPT !.hi = r.lo + n - 1]
DropRun(r, n) == [r EXCEPT !.lo = r.lo + n]
RunLen(r) == r.hi - r.lo + 1
NoRun == Run(0, "none", 1, 0)

(* ------------------------- timing line format -------------------------- *)
Digit == <<"0", "1", "2", "3", "4", "5", "6", "7", "8", "9">>
DigitSet == {Digit[i] : i \in 1..10}

\* format!("{}", n) for an unsigned integer
RECURSIVE Decimal(_)
Decimal(n) ==
    IF n < 10 THEN <<Digit[n + 1]>>
    ELSE Decimal(n \div 10) \o <<Digit[(n % 10) + 1]>>

\* the last `width` decimal digits of n, zero padded
RECURSIVE Padded(_, _)
Padded(n, width) ==
    IF width = 0 THEN <<>>
    ELSE Padded(n \div 10, width - 1) \o <<Digit[(n % 10) + 1]>>

\* format!("{:.6}", elapsed.as_secs_f64()) for elapsed microseconds
Fixed6(us) == Decimal(us \div 1000000) \o <<".">> \o Padded(us % 1000000, 6)

\* a variant of InputTimingLine that never writes the tag
InputTimingLine_untagged(format, elapsed, n) ==
    Fixed6(elapsed) \o <<" ">> \o Decimal(n) \o <<"\n">>

\* writeln!(file, "{:.6} {}", elapsed, n)  /  writeln!(file, "I {:.6} {}", ...)
InputTimingLine(format, elapsed, n) ==
    IF format = "classic"
    THEN Fixed6(elapsed) \o <<" ">> \o Decimal(n) \o <<"\n">>
    ELSE <<"I", " ">> \o Fixed6(elapsed) \o <<" ">> \o Decimal(n) \o <<"\n">>

\* a variant of OutputTimingLine that records the size of the buffer, not of
\* the transfer
OutputTimingLine_capacity(format, elapsed, n) ==
    <<"O", " ">> \o Fixed6(elapsed) \o <<" ">> \o Decimal(BUFFER_LEN) \o <<"\n", "\n">>

\* writeln!(file, "O {:.6} {}\n", elapsed, n) in both branches of the match
OutputTimingLine(format, elapsed, n) ==
    IF format = "classic"
    THEN <<"O", " ">> \o Fixed6(elapsed) \o <<" ">> \o Decimal(n) \o <<"\n", "\n">>
    ELSE <<"O", " ">> \o Fixed6(elapsed) \o <<" ">> \o Decimal(n) \o <<"\n", "\n">>

(* ---------------------------- command line ----------------------------- *)
NoArg == "unset"
NoSize == [n |-> 0, suffix |-> NoArg]     \* no --output-limit given

\* pairs of arguments uu_app declares as conflicting: it declares none
\* (no Arg carries conflicts_with)
uu_app_conflicts == {}

\* the multiplier a size suffix stands for
SuffixMultiplier(suffix) ==
    CASE suffix = "K" -> KIB
      [] suffix = "KiB" -> KIB
      [] suffix = "M" -> KIB * KIB
      [] suffix = "MiB" -> KIB * KIB
      [] suffix = "KB" -> 1000
      [] suffix = "MB" -> 1000 * 1000
      [] OTHER -> 1

\* parse_size on <number><suffix>
parse_size(size) == size.n * SuffixMultiplier(size.suffix)

\* try_get_matches_from: rejects an unknown argument and a declared conflict
ArgsRejected(a) ==
    \/ a.invalid
    \/ \E pair \in uu_app_conflicts : \A name \in pair : a[name] # NoArg /\ a[name] # FALSE

\* uumain: ScriptOptions from the matches
BuildOptions(a) ==
    [ append |-> a.append,
      command |-> a.command,
      echo_mode |-> IF a.echo \in {"always", "never"} THEN a.echo ELSE "auto",
      return_exit_status |-> a.ret,
      flush |-> a.flush,
      force |-> a.force,
      log_io_file |-> a.log_io,
      log_in_file |-> a.log_in,
      log_out_file |-> a.log_out,
      log_timing_file |-> a.log_timing,
      logging_format |-> IF a.format = "advanced" THEN "advanced" ELSE "classic",
      output_limit |-> IF a.limit = NoSize THEN NoLimit ELSE parse_size(a.limit),
      quiet |-> a.quiet ]

NoOptions == BuildOptions(
    [ invalid |-> FALSE, append |-> FALSE, command |-> FALSE, echo |-> "auto",
      ret |-> FALSE, flush |-> FALSE, force |-> FALSE, log_io |-> FALSE,
      log_in |-> FALSE, log_out |-> FALSE, log_timing |-> FALSE,
      format |-> NoArg, limit |-> NoSize, quiet |-> FALSE ])

\* is sink s configured by the options
Configured(o, s) ==
    CASE s = OUT -> TRUE
      [] s = LOG_IN -> o.log_in_file
      [] s = LOG_OUT -> o.log_out_file
      [] s = LOG_IO -> o.log_io_file
      [] s = TIMING -> o.log_timing_file

(* ------------------------------ scenarios ------------------------------ *)
\* `script -c <command> <file>` with every option at its default
BaseArgs ==
    [ invalid |-> FALSE, append |-> FALSE, command |-> TRUE, echo |-> "auto",
      ret |-> FALSE, flush |-> FALSE, force |-> FALSE, log_io |-> FALSE,
      log_in |-> FALSE, log_out |-> FALSE, log_timing |-> FALSE,
      format |-> NoArg, limit |-> NoSize, quiet |-> FALSE ]

OneK == [n |-> 1, suffix |-> "K"]

\* the environment of a run: is stdin a terminal, does that terminal echo,
\* which steps fail, and what the named files are before the run
BaseEnv == [isatty |-> FALSE, echo |-> TRUE, faults |-> {}, pre |-> "absent",
            sigs |-> MaxSignals, writes |-> MaxChildWrites, chunks |-> MaxStdinChunks,
            eof |-> "later", killed |-> FALSE, spurious |-> FALSE]

Scenario(a, e) == [args |-> a, world |-> e]

\* the failures the environment can inject, one name per failing step
SetupFaults == {"sigaction", "open_out_file", "open_timing_file", "tcgetattr",
                "openpty", "tcsetattr", "fork", "fcntl_stdin", "fcntl_master"}
LoopFaults == {"select", "read_stdin", "read_master", "restore"}
WriteFaults == {"w_out_file", "w_log_in_file", "w_log_out_file", "w_log_io_file",
                "w_timing_file", "w_stdout", "w_master"}
ChildFaults == {"c_setsid", "c_tiocsctty", "c_dup2_0", "c_dup2_1", "c_dup2_2",
                "c_execvp"}

\* the previous content of a data file and of the timing file
OldData == <<Run(0, "pty", 1, 7)>>
OldTiming == <<"0", ".", "5", " ", "7", "\n">>

PreFile(s, pre) ==
    CASE pre = "absent" -> [exists |-> FALSE, nlink |-> 0, data |-> <<>>]
      [] pre = "single" -> [exists |-> TRUE, nlink |-> 1,
                            data |-> IF s = TIMING THEN OldTiming ELSE OldData]
      [] pre = "linked" -> [exists |-> TRUE, nlink |-> 2,
                            data |-> IF s = TIMING THEN OldTiming ELSE OldData]
      [] pre = "linked_logs" -> [exists |-> TRUE, nlink |-> IF s = OUT THEN 1 ELSE 2,
                                 data |-> IF s = TIMING THEN OldTiming ELSE OldData]

\* environments: stdin at its end from the start, only the child acts; an idle
\* terminal; data and then the end of input on stdin; an idle stdin and signals
Quiet == [BaseEnv EXCEPT !.sigs = 0, !.chunks = 0, !.eof = "start"]
Terminal == [BaseEnv EXCEPT !.sigs = 0, !.chunks = 0, !.eof = "never", !.isatty = TRUE]
Typing == [BaseEnv EXCEPT !.sigs = 0, !.writes = 1]
Signalled == [BaseEnv EXCEPT !.chunks = 0, !.eof = "never"]

AllLogs == [BaseArgs EXCEPT !.log_timing = TRUE, !.log_io = TRUE, !.log_in = TRUE,
                            !.log_out = TRUE]

Scenarios ==
    \* exit status and output limit
    { Scenario([BaseArgs EXCEPT !.ret = r, !.limit = l], Quiet) :
        r \in BOOLEAN, l \in {NoSize, OneK} }
    \cup { Scenario([BaseArgs EXCEPT !.ret = TRUE, !.limit = l], Typing) :
        l \in {NoSize, OneK} }
    \* logs and timing formats
    \cup { Scenario([BaseArgs EXCEPT !.log_timing = TRUE, !.format = f,
                                     !.log_in = ~lio, !.log_out = ~lio, !.log_io = lio],
                    Typing) :
        f \in {NoArg, "advanced"}, lio \in BOOLEAN }
    \* every log at once, flushing or not, with signals
    \cup { Scenario([AllLogs EXCEPT !.flush = f], Signalled) : f \in BOOLEAN }
    \* an unknown argument
    \cup { Scenario([BaseArgs EXCEPT !.invalid = TRUE], Quiet) }
    \* a command ended by a signal, with and without SIGUSR1 for the session
    \cup { Scenario([BaseArgs EXCEPT !.ret = TRUE], [w EXCEPT !.killed = TRUE]) :
        w \in {Quiet, Signalled} }
    \* a select that reports the pty ready when nothing is there to read
    \cup { Scenario([BaseArgs EXCEPT !.ret = TRUE], [Quiet EXCEPT !.spurious = TRUE]) }
    \* every log and an output limit
    \cup { Scenario([AllLogs EXCEPT !.limit = OneK], Quiet) }
    \* existing files, append and force
    \cup { Scenario([BaseArgs EXCEPT !.append = a, !.force = f, !.log_out = TRUE,
                                     !.quiet = TRUE],
                    [Quiet EXCEPT !.pre = p]) :
        a \in BOOLEAN, f \in BOOLEAN, p \in {"single", "linked", "linked_logs"} }
    \* echo policies, on a terminal and on a pipe
    \cup { Scenario([BaseArgs EXCEPT !.echo = m, !.command = FALSE],
                    [w EXCEPT !.echo = e]) :
        m \in {"always", "never", "auto"}, w \in {Quiet, Terminal}, e \in BOOLEAN }
    \* one failing step of the setup or of the child
    \cup { Scenario([AllLogs EXCEPT !.ret = r], [Terminal EXCEPT !.faults = {f}]) :
        r \in BOOLEAN, f \in SetupFaults \cup ChildFaults \cup {"select", "restore"} }
    \* one failing read or write during the session
    \cup { Scenario([AllLogs EXCEPT !.flush = TRUE], [Typing EXCEPT !.faults = {f}]) :
        f \in (LoopFaults \cup WriteFaults) \ {"select", "restore"} }

(* ------------------------------- Init ---------------------------------- *)
NoTermios == [some |-> FALSE, echo |-> FALSE]
NoResult == [kind |-> "none", status |-> 0]
Ok_zero(status) == [kind |-> "Ok", status |-> 0]  \* a variant of Ok that drops the status
Ok(status) == [kind |-> "Ok", status |-> status]
Err == [kind |-> "Err", status |-> 0]

NoChild == [pc |-> "none", status |-> [kind |-> "none", code |-> 0],
            steps |-> <<>>, image |-> "none", sigterm |-> FALSE]

IoInit ==
    [ next_sink |-> 1, total_bytes |-> 0, last_time |-> 0, exit_status |-> 0,
      child_exited |-> FALSE, read_fds |-> {}, stdin_buffer |-> NoRun,
      remaining |-> NoRun, elapsed |-> 0, write_failed |-> FALSE ]

EnvInit(w) == [sigs |-> w.sigs, writes |-> w.writes, chunks |-> w.chunks,
               eof |-> w.eof = "later", kills |-> 0, handler |-> FALSE,
               unconsumed |-> FALSE]

InitWith(sc) ==
    /\ args = sc.args
    /\ options = NoOptions
    /\ pc = "uumain"
    /\ exit_code = 0
    /\ session = 1
    /\ fs = [s \in Sinks |-> PreFile(s, sc.world.pre)]
    /\ log_files = {}
    /\ nflush = [s \in Sinks |-> 0]
    /\ world = sc.world
    /\ prior = fs
    /\ tty = [isatty |-> sc.world.isatty, echo |-> sc.world.echo, termios |-> NoTermios,
              pty |-> FALSE, slave_echo |-> TRUE, echo_applied |-> FALSE,
              winsize |-> FALSE, nonblock |-> {}]
    /\ notices = <<>>
    /\ child = NoChild
    /\ pty_out = [w |-> 0, r |-> 0]
    /\ pty_in = [data |-> <<>>, taken |-> 0]
    /\ stdin = [w |-> 0, r |-> 0, eof |-> sc.world.eof = "start"]
    /\ stdout_data = <<>>
    /\ FLUSH_LOGS = FALSE
    /\ io = IoInit
    /\ result = NoResult
    /\ now = 0
    /\ env = EnvInit(sc.world)

Init == \E sc \in Scenarios : InitWith(sc)

\* the steps that fail in this run
broken == world.faults

(* ------------------------------ uumain --------------------------------- *)
\* the process ends with `code`; its open files are closed
Exit(code) ==
    /\ pc' = "exit"
    /\ exit_code' = code
    /\ log_files' = {}

\* uumain: parse the command line and build ScriptOptions
ParseArgs ==
    /\ pc = "uumain"
    /\ IF ArgsRejected(args)
       THEN /\ Exit(1)
            /\ UNCHANGED options
       ELSE /\ options' = BuildOptions(args)
            /\ pc' = "sigaction"
            /\ UNCHANGED <<exit_code, log_files>>
    /\ UNCHANGED <<args, session, fs, nflush, world, prior, tty, notices, child, pty_out,
                   pty_in, stdin, stdout_data, FLUSH_LOGS, io, result, now, env>>

(* ----------------------------- run_script ------------------------------ *)
\* sigaction(SIGUSR1, handle_sigusr1)
InstallHandler ==
    /\ pc = "sigaction"
    /\ IF "sigaction" \in broken
       THEN /\ Exit(1)
            /\ UNCHANGED env
       ELSE /\ env' = [env EXCEPT !.handler = TRUE]
            /\ pc' = "open"
            /\ UNCHANGED <<exit_code, log_files>>
    /\ UNCHANGED <<args, options, session, fs, nflush, world, prior, tty, notices, child,
                   pty_out, pty_in, stdin, stdout_data, FLUSH_LOGS, io, result, now>>

\* open_output_file: is the target refused for its link count
RefusedUnsafeTarget(file, append, force) ==
    ~force /\ ~append /\ file.exists /\ file.nlink > 1

\* a variant of OpenedFile that truncates whatever `append` says
OpenedFile_truncating(file, append) ==
    [ exists |-> TRUE,
      nlink |-> IF file.exists THEN file.nlink ELSE 1,
      data |-> <<>> ]

\* open_output_file: the file after OpenOptions ... .append(append).truncate(!append)
OpenedFile(file, append) ==
    [ exists |-> TRUE,
      nlink |-> IF file.exists THEN file.nlink ELSE 1,
      data |-> IF append THEN file.data ELSE <<>> ]

\* a variant of ForceFor that passes options.force for every sink
ForceFor_same(o, s) == o.force

\* the force argument run_script passes for sink s
ForceFor(o, s) == IF s = OUT THEN o.force ELSE TRUE

\* run_script: open the next sink of LogFiles, or return Err(1)
OpenSink ==
    /\ pc = "open"
    /\ LET s == SinkOrder[io.next_sink]
           last == io.next_sink = Len(SinkOrder)
           failed == \/ RefusedUnsafeTarget(fs[s], options.append, ForceFor(options, s))
                     \/ ("open_" \o s) \in broken
       IN IF Configured(options, s) /\ failed
          THEN /\ Exit(1)
               /\ UNCHANGED <<fs, io>>
          ELSE /\ IF Configured(options, s)
                  THEN /\ fs' = [fs EXCEPT ![s] = OpenedFile(fs[s], options.append)]
                       /\ log_files' = log_files \cup {s}
                  ELSE UNCHANGED <<fs, log_files>>
               /\ io' = [io EXCEPT !.next_sink = IF last THEN @ ELSE @ + 1]
               /\ pc' = IF last THEN "tcgetattr" ELSE "open"
               /\ UNCHANGED exit_code
    /\ UNCHANGED <<args, options, session, nflush, world, prior, tty, notices, child,
                   pty_out, pty_in, stdin, stdout_data, FLUSH_LOGS, result, now, env>>

\* isatty(STDIN) and tcgetattr
GetTermios ==
    /\ pc = "tcgetattr"
    /\ IF tty.isatty /\ "tcgetattr" \in broken
       THEN /\ Exit(1)
            /\ UNCHANGED tty
       ELSE /\ tty' = [tty EXCEPT !.termios =
                          IF tty.isatty THEN [some |-> TRUE, echo |-> tty.echo]
                          ELSE NoTermios]
            /\ pc' = "openpty"
            /\ UNCHANGED <<exit_code, log_files>>
    /\ UNCHANGED <<args, options, session, fs, nflush, world, prior, notices, child,
                   pty_out, pty_in, stdin, stdout_data, FLUSH_LOGS, io, result, now, env>>

\* a variant of OpenPty that goes on when openpty fails
OpenPty_unchecked ==
    /\ pc = "openpty"
    /\ tty' = [tty EXCEPT !.pty = "openpty" \notin broken, !.slave_echo = TRUE]
    /\ pc' = "tcsetattr"
    /\ UNCHANGED <<args, options, exit_code, log_files, session, fs, nflush, world, prior,
                   notices, child, pty_out, pty_in, stdin, stdout_data, FLUSH_LOGS, io,
                   result, now, env>>

\* openpty(None, None): a new pty echoes
OpenPty ==
    /\ pc = "openpty"
    /\ IF "openpty" \in broken
       THEN /\ Exit(1)
            /\ UNCHANGED tty
       ELSE /\ tty' = [tty EXCEPT !.pty = TRUE, !.slave_echo = TRUE]
            /\ pc' = "tcsetattr"
            /\ UNCHANGED <<exit_code, log_files>>
    /\ UNCHANGED <<args, options, session, fs, nflush, world, prior, notices, child,
                   pty_out, pty_in, stdin, stdout_data, FLUSH_LOGS, io, result, now, env>>

\* the ECHO flag run_script computes from the echo policy
EchoFor(mode, isatty, echo) ==
    CASE mode = "always" -> TRUE
      [] mode = "never" -> FALSE
      [] OTHER -> IF isatty THEN FALSE ELSE TRUE

\* copy the window size and apply the echo setting to the slave side
ConfigureEcho ==
    /\ pc = "tcsetattr"
    /\ IF tty.termios.some /\ "tcsetattr" \in broken
       THEN /\ Exit(1)
            /\ UNCHANGED tty
       ELSE /\ tty' = IF tty.termios.some
                      THEN [tty EXCEPT !.winsize = TRUE,
                                       !.echo_applied = TRUE,
                                       !.slave_echo = EchoFor(options.echo_mode,
                                                             tty.isatty,
                                                             tty.termios.echo)]
                      ELSE tty
            /\ pc' = "fork"
            /\ UNCHANGED <<exit_code, log_files>>
    /\ UNCHANGED <<args, options, session, fs, nflush, world, prior, notices, child,
                   pty_out, pty_in, stdin, stdout_data, FLUSH_LOGS, io, result, now, env>>

\* the start notice, the start time and fork()
Fork ==
    /\ pc = "fork"
    /\ notices' = IF options.quiet THEN notices ELSE Append(notices, "started")
    /\ IF "fork" \in broken
       THEN /\ Exit(1)
            /\ UNCHANGED <<child, io>>
       ELSE /\ child' = [NoChild EXCEPT !.pc = "forked", !.image = "script"]
            /\ io' = [io EXCEPT !.last_time = now]
            /\ pc' = "handle_io"
            /\ UNCHANGED <<exit_code, log_files>>
    /\ UNCHANGED <<args, options, session, fs, nflush, world, prior, tty,
                   pty_out, pty_in, stdin, stdout_data, FLUSH_LOGS, result, now, env>>

(* ------------------------------ handle_io ------------------------------ *)
\* handle_io returns r: LogFiles is dropped, run_script goes on to the done notice
Return(r) ==
    /\ result' = r
    /\ log_files' = {}
    /\ pc' = "done_msg"

\* the locals, and O_NONBLOCK on stdin and on the pty master
SetNonblock ==
    /\ pc = "handle_io"
    /\ io' = [io EXCEPT !.total_bytes = 0, !.exit_status = 0, !.child_exited = FALSE]
    /\ IF "fcntl_stdin" \in broken
       THEN /\ Return(Err)
            /\ UNCHANGED tty
       ELSE IF "fcntl_master" \in broken
       THEN /\ Return(Err)
            /\ tty' = [tty EXCEPT !.nonblock = {"stdin"}]
       ELSE /\ tty' = [tty EXCEPT !.nonblock = {"stdin", "master"}]
            /\ pc' = "select"
            /\ UNCHANGED <<result, log_files>>
    /\ UNCHANGED <<args, options, exit_code, session, fs, nflush, world, prior, notices,
                   child, pty_out, pty_in, stdin, stdout_data, FLUSH_LOGS, now, env>>

\* a variant of SlaveClosed that takes every empty pty for a closed one
SlaveClosed_always == TRUE

\* no process holds the slave side any more
SlaveClosed == child.pc \in {"exiting", "zombie", "reaped"}

StdinReadable == stdin.w > stdin.r \/ stdin.eof
\* select(2) may report a descriptor ready whose read then finds nothing
MasterReadable == pty_out.w > pty_out.r \/ SlaveClosed \/ world.spurious

\* the descriptors select reports (none of them: the one second timeout)
ReadySet ==
    (IF StdinReadable THEN {"stdin"} ELSE {}) \cup
    (IF MasterReadable THEN {"master"} ELSE {})

\* select() returns with the ready descriptors, times out, or fails
Select ==
    /\ pc = "select"
    /\ IF "select" \in broken
       THEN /\ Return(Err)
            /\ UNCHANGED io
       ELSE /\ io' = [io EXCEPT !.read_fds = ReadySet]
            /\ pc' = "waitpid"
            /\ UNCHANGED <<result, log_files>>
    /\ UNCHANGED <<args, options, exit_code, session, fs, nflush, world, prior, tty, notices,
                   child, pty_out, pty_in, stdin, stdout_data, FLUSH_LOGS, now, env>>

\* a variant of handle_sigusr1 that stores false
handle_sigusr1_clears == FALSE

\* handle_sigusr1
handle_sigusr1 == TRUE

\* the positions inside the loop of handle_io
LoopPcs == {"select", "eintr", "waitpid", "write_all", "would_block", "master"}

\* SIGUSR1 arrives while select waits: the handler runs, select fails with EINTR
SelectInterrupted ==
    /\ pc = "select"
    /\ env.handler
    /\ env.sigs > 0
    /\ FLUSH_LOGS' = handle_sigusr1
    /\ env' = [env EXCEPT !.sigs = @ - 1, !.unconsumed = TRUE]
    /\ pc' = "eintr"
    /\ UNCHANGED <<args, options, exit_code, session, fs, log_files, nflush, world, prior,
                   tty, notices, child, pty_out, pty_in, stdin, stdout_data, io,
                   result, now>>

\* SIGUSR1 arrives at any other moment: the handler runs
Sigusr1 ==
    /\ pc \notin {"restore", "done_msg", "exit"}
    /\ env.handler
    /\ env.sigs > 0
    /\ FLUSH_LOGS' = handle_sigusr1
    /\ env' = [env EXCEPT !.sigs = @ - 1, !.unconsumed = @ \/ pc \in LoopPcs]
    /\ UNCHANGED <<args, options, pc, exit_code, session, fs, log_files, nflush,
                   world, prior, tty, notices, child, pty_out, pty_in, stdin, stdout_data,
                   io, result, now>>

\* a variant of StatusOf that records the bare signal number
StatusOf_raw(st) ==
    IF st.kind \in {"exited", "signaled"} THEN st.code ELSE 0

\* WEXITSTATUS, or 128 + WTERMSIG
StatusOf(st) ==
    IF st.kind = "exited" THEN st.code
    ELSE IF st.kind = "signaled" THEN SIGNAL_BASE + st.code
    ELSE 0

\* waitpid(child, WNOHANG) > 0
WaitResult == child.pc = "zombie"

\* a variant of AfterWaitpid that gives up the iteration's reads when the
\* child is found ended
AfterWaitpid_stop(l) ==
    IF WaitResult
    THEN [l EXCEPT !.child_exited = TRUE, !.exit_status = StatusOf(child.status),
                   !.read_fds = {}]
    ELSE l

\* the locals after the non-blocking status check
AfterWaitpid(l) ==
    IF WaitResult
    THEN [l EXCEPT !.child_exited = TRUE, !.exit_status = StatusOf(child.status)]
    ELSE l

Reaped(c) == IF WaitResult THEN [c EXCEPT !.pc = "reaped"] ELSE c

\* a variant of WaitpidInterrupted that takes the interrupted select for a failure
WaitpidInterrupted_fails ==
    /\ pc = "eintr"
    /\ Return(Err)
    /\ UNCHANGED <<args, options, exit_code, session, fs, nflush, world, prior,
                   tty, notices, child, pty_out, pty_in, stdin, stdout_data, FLUSH_LOGS,
                   io, now, env>>

\* the interrupted path: status check, then `continue`
WaitpidInterrupted ==
    /\ pc = "eintr"
    /\ io' = AfterWaitpid(io)
    /\ child' = Reaped(child)
    /\ pc' = IF io'.child_exited THEN "restore" ELSE "select"
    /\ UNCHANGED <<args, options, exit_code, session, fs, log_files, nflush, world, prior,
                   tty, notices, pty_out, pty_in, stdin, stdout_data, FLUSH_LOGS,
                   result, now, env>>

\* a variant of FlushAll that flushes the transcript only
FlushAll_transcript(counts, open) ==
    [s \in Sinks |-> IF s \in open /\ s = OUT THEN counts[s] + 1 ELSE counts[s]]

\* FLUSH_LOGS.swap(false) and the flushes it asks for
FlushAll(counts, open) == [s \in Sinks |-> IF s \in open THEN counts[s] + 1 ELSE counts[s]]

\* what read(fd, buf, cap) returns when `avail` bytes are queued
ReadLen(avail, cap) == Min(avail, cap)

\* Instant::now(): the clock has not gone back
ClockReads == {t \in {now + d : d \in ClockSteps} : t <= MaxTime} \cup {now}

\* file.write_all(bytes) on sink s, when it is open and the write succeeds
WriteSink(files, open, s, bytes) ==
    IF s \in open /\ ("w_" \o s) \notin broken
    THEN [files EXCEPT ![s].data = AppendRun(@, bytes)]
    ELSE files

\* the characters `line` appended to the timing file
WriteTiming(files, open, line) ==
    IF TIMING \in open /\ ("w_" \o TIMING) \notin broken
    THEN [files EXCEPT ![TIMING].data = @ \o line]
    ELSE files

\* config.flush: one flush() after the write to each sink of `written` that is open
FlushWritten(counts, open, written, flush) ==
    [s \in Sinks |-> IF flush /\ s \in open /\ s \in written
                     THEN counts[s] + 1 ELSE counts[s]]

\* a variant of AfterStdinRead that counts the input towards the output limit
AfterStdinRead_counted(l, t, bytes) ==
    [l EXCEPT !.elapsed = t - l.last_time,
              !.last_time = t,
              !.stdin_buffer = bytes,
              !.remaining = bytes,
              !.total_bytes = @ + RunLen(bytes)]

\* a variant of AfterStdinRead that leaves the baseline where it was
AfterStdinRead_stale(l, t, bytes) ==
    [l EXCEPT !.elapsed = t - l.last_time,
              !.stdin_buffer = bytes,
              !.remaining = bytes]

\* the locals after read(stdin_fd) returned `bytes` at time t
AfterStdinRead(l, t, bytes) ==
    [l EXCEPT !.elapsed = t - l.last_time,
              !.last_time = t,
              !.stdin_buffer = bytes,
              !.remaining = bytes]

\* the status check, the flush check and the stdin branch of an iteration:
\* waitpid(WNOHANG), FLUSH_LOGS.swap(false), read(stdin_fd, stdin_buffer)
CheckAndReadStdin ==
    /\ pc = "waitpid"
    /\ child' = Reaped(child)
    /\ FLUSH_LOGS' = FALSE
    /\ env' = [env EXCEPT !.unconsumed = FALSE]
    /\ nflush' = IF FLUSH_LOGS THEN FlushAll(nflush, log_files) ELSE nflush
    /\ IF "stdin" \notin io.read_fds \/ "read_stdin" \in broken \/ stdin.w = stdin.r
       THEN \* not readable, a read error, end of input or would-block
            /\ io' = AfterWaitpid(io)
            /\ pc' = "master"
            /\ UNCHANGED <<stdin, now>>
       ELSE \E t \in ClockReads :
            LET n == ReadLen(stdin.w - stdin.r, STDIN_BUFFER_LEN) IN
            /\ stdin' = [stdin EXCEPT !.r = @ + n]
            /\ now' = t
            /\ io' = AfterStdinRead(AfterWaitpid(io), t,
                                    Run(session, "stdin", stdin.r + 1, stdin.r + n))
            /\ pc' = "write_all"
    /\ UNCHANGED <<args, options, exit_code, session, fs, log_files, world, prior, tty,
                   notices, pty_out, pty_in, stdout_data, result>>

\* free room in the pty's input queue
PtyInFree == PtyInputCap - (SizeOf(pty_in.data) - pty_in.taken)

\* a variant of MasterWriteFails for a pty that takes input with no reader left
MasterWriteFails_injected == "w_master" \in broken

\* a variant of LogInput that copies the input to the transcript as well
LogInput_transcript(files, open, bytes, elapsed) ==
    WriteTiming(
        WriteSink(WriteSink(WriteSink(files, open, OUT, bytes), open, LOG_IN, bytes),
                  open, LOG_IO, bytes),
        open,
        InputTimingLine(options.logging_format, elapsed, RunLen(bytes)))

\* the logging of an input transfer of n bytes (log_in, log_io, timing)
LogInput(files, open, bytes, elapsed) ==
    WriteTiming(
        WriteSink(WriteSink(files, open, LOG_IN, bytes), open, LOG_IO, bytes),
        open,
        InputTimingLine(options.logging_format, elapsed, RunLen(bytes)))

\* write(master_fd) fails for good: the injected failure, or EIO once no
\* process holds the slave side
MasterWriteFails == "w_master" \in broken \/ SlaveClosed

\* write(master_fd) fails with EAGAIN: the queue of the pty is full
WouldBlock == ~MasterWriteFails /\ PtyInFree = 0

\* write_all(master_fd, ..): one write(2); after the last one, or after a failed
\* one, the input is logged
WriteAll ==
    /\ pc = "write_all"
    /\ IF MasterWriteFails
       THEN /\ io' = [io EXCEPT !.remaining = NoRun, !.write_failed = TRUE]
            /\ UNCHANGED pty_in
       ELSE IF WouldBlock
       THEN \* would block: write_all tries again
            UNCHANGED <<io, pty_in>>
       ELSE LET k == Min(RunLen(io.remaining), PtyInFree)
            IN /\ pty_in' = [pty_in EXCEPT !.data = AppendRun(@, TakeRun(io.remaining, k))]
               /\ io' = [io EXCEPT !.remaining =
                                     IF k = RunLen(@) THEN NoRun ELSE DropRun(@, k)]
    /\ IF io'.remaining = NoRun
       THEN /\ fs' = LogInput(fs, log_files, io.stdin_buffer, io.elapsed)
            /\ nflush' = FlushWritten(nflush, log_files, {LOG_IN, LOG_IO, TIMING},
                                      options.flush)
            /\ pc' = "master"
       ELSE /\ pc' = IF WouldBlock THEN "would_block" ELSE "write_all"
            /\ UNCHANGED <<fs, nflush>>
    /\ UNCHANGED <<args, options, exit_code, session, log_files, world, prior, tty, notices,
                   child, pty_out, stdin, stdout_data, FLUSH_LOGS, result, now, env>>

\* the `continue` of write_all after WouldBlock or Interrupted: back to write(2)
WriteRetry ==
    /\ pc = "would_block"
    /\ pc' = "write_all"
    /\ UNCHANGED <<args, options, exit_code, session, fs, log_files, nflush, world, prior,
                   tty, notices, child, pty_out, pty_in, stdin, stdout_data, FLUSH_LOGS,
                   io, result, now, env>>

\* a variant of LogOutput that writes the bytes to the transcript twice
LogOutput_twice(files, open, bytes, elapsed) ==
    WriteTiming(
        WriteSink(WriteSink(WriteSink(WriteSink(files, open, OUT, bytes), open, OUT, bytes),
                            open, LOG_OUT, bytes),
                  open, LOG_IO, bytes),
        open,
        OutputTimingLine(options.logging_format, elapsed, RunLen(bytes)))

\* a variant of LogOutput that gives up the transfer's logging when the write
\* to the transcript fails
LogOutput_stops(files, open, bytes, elapsed) ==
    IF "w_out_file" \in broken
    THEN files
    ELSE WriteTiming(
             WriteSink(WriteSink(WriteSink(files, open, OUT, bytes), open, LOG_OUT, bytes),
                       open, LOG_IO, bytes),
             open,
             OutputTimingLine(options.logging_format, elapsed, RunLen(bytes)))

\* the logging of an output transfer (transcript, log_out, log_io, timing)
LogOutput(files, open, bytes, elapsed) ==
    WriteTiming(
        WriteSink(WriteSink(WriteSink(files, open, OUT, bytes), open, LOG_OUT, bytes),
                  open, LOG_IO, bytes),
        open,
        OutputTimingLine(options.logging_format, elapsed, RunLen(bytes)))

\* a variant of LimitReached that compares with the limit whether set or not
LimitReached_unset(total, limit) == total >= limit

\* a variant of LimitReached that lets the counter sit on the limit
LimitReached_strict(total, limit) == limit # NoLimit /\ total > limit

\* total_bytes >= limit
LimitReached(total, limit) == limit # NoLimit /\ total >= limit

\* the pty branch: read(master_fd, buffer), the relay, and the end of the iteration
ReadMaster ==
    /\ pc = "master"
    /\ IF "master" \notin io.read_fds
       THEN /\ pc' = IF io.child_exited THEN "restore" ELSE "select"
            /\ UNCHANGED <<pty_out, io, now, env, fs, nflush, stdout_data, child>>
       ELSE IF "read_master" \in broken
       THEN \* a read error that is not would-block
            /\ pc' = "restore"
            /\ UNCHANGED <<pty_out, io, now, env, fs, nflush, stdout_data, child>>
       ELSE IF pty_out.w = pty_out.r
       THEN \* end of stream: break; would-block: go on
            /\ pc' = IF SlaveClosed \/ io.child_exited THEN "restore" ELSE "select"
            /\ UNCHANGED <<pty_out, io, now, env, fs, nflush, stdout_data, child>>
       ELSE \E t \in ClockReads :
            LET n == ReadLen(pty_out.w - pty_out.r, BUFFER_LEN)
                bytes == Run(session, "pty", pty_out.r + 1, pty_out.r + n)
                total == io.total_bytes + n
                over == LimitReached(total, options.output_limit)
            IN /\ pty_out' = [pty_out EXCEPT !.r = @ + n]
               /\ now' = t
               /\ stdout_data' = IF "w_stdout" \in broken THEN stdout_data
                                 ELSE AppendRun(stdout_data, bytes)
               /\ fs' = LogOutput(fs, log_files, bytes, t - io.last_time)
               /\ nflush' = FlushWritten(nflush, log_files, {OUT, LOG_OUT, LOG_IO, TIMING},
                                         options.flush)
               /\ io' = [io EXCEPT !.elapsed = t - io.last_time,
                                   !.last_time = t,
                                   !.total_bytes = total]
               /\ env' = [env EXCEPT !.kills = IF over THEN @ + 1 ELSE @]
               /\ child' = IF over /\ child.pc \in {"forked", "running"}
                           THEN [child EXCEPT !.sigterm = TRUE] ELSE child
               /\ pc' = IF over \/ io.child_exited THEN "restore" ELSE "select"
    /\ UNCHANGED <<args, options, exit_code, session, log_files, world, prior, tty, notices,
                   pty_in, stdin, FLUSH_LOGS, result>>

\* after the loop: clear O_NONBLOCK on stdin, return Ok(exit_status)
Restore ==
    /\ pc = "restore"
    /\ tty' = IF "restore" \in broken THEN tty
              ELSE [tty EXCEPT !.nonblock = @ \ {"stdin"}]
    /\ Return(Ok(io.exit_status))
    /\ UNCHANGED <<args, options, exit_code, session, fs, nflush, world, prior, notices,
                   child, pty_out, pty_in, stdin, stdout_data, FLUSH_LOGS, io, now, env>>

\* run_script after handle_io: the done notice and the exit status
Finish ==
    /\ pc = "done_msg"
    /\ notices' = IF options.quiet THEN notices ELSE Append(notices, "done")
    /\ pc' = "exit"
    /\ exit_code' = IF options.return_exit_status
                    THEN (IF result.kind = "Ok" THEN result.status ELSE 1)
                    ELSE exit_code
    /\ UNCHANGED <<args, options, session, fs, log_files, nflush, world, prior, tty, child,
                   pty_out, pty_in, stdin, stdout_data, FLUSH_LOGS, io, result, now, env>>

\* the session runs: the parent has not left the loop of handle_io
SessionRuns == pc \notin {"restore", "done_msg", "exit"}

(* ------------------------------ the child ------------------------------ *)
\* the steps of the child branch of run_script, in the order of the code
ChildSteps == <<"close_master", "setsid", "tiocsctty", "dup2_0", "dup2_1", "dup2_2",
                "close_slave", "execvp">>

\* a variant of ChildCheckedSteps that goes on after a failed execvp
ChildCheckedSteps_noexec == {"dup2_0", "dup2_1", "dup2_2"}

\* the steps whose failure the child branch acts on, by _exit(1)
ChildCheckedSteps == {"dup2_0", "dup2_1", "dup2_2", "execvp"}

\* index of the first step that fails and is checked (0: none)
RECURSIVE FirstFatal(_)
FirstFatal(i) ==
    IF i > Len(ChildSteps) THEN 0
    ELSE IF ChildSteps[i] \in ChildCheckedSteps /\ ("c_" \o ChildSteps[i]) \in broken
         THEN i
         ELSE FirstFatal(i + 1)

\* the child branch: descriptors, session, controlling terminal, exec
ChildExec ==
    /\ child.pc = "forked"
    /\ SessionRuns
    /\ LET stop == FirstFatal(1)
       IN child' = IF stop = 0
                   THEN [child EXCEPT !.pc = "running",
                                      !.steps = ChildSteps,
                                      !.image = IF options.command THEN "shell -c command"
                                                ELSE "shell"]
                   ELSE [child EXCEPT !.pc = "exiting",
                                      !.steps = SubSeq(ChildSteps, 1, stop),
                                      !.status = [kind |-> "exited", code |-> 1]]
    /\ UNCHANGED <<args, options, pc, exit_code, session, fs, log_files, nflush, world, prior,
                   tty, notices, pty_out, pty_in, stdin, stdout_data, FLUSH_LOGS, io,
                   result, now, env>>

\* the command writes n bytes to its terminal
ChildWrite(n) ==
    /\ child.pc = "running"
    /\ SessionRuns
    /\ env.writes > 0
    /\ pty_out' = [pty_out EXCEPT !.w = @ + n]
    /\ env' = [env EXCEPT !.writes = @ - 1]
    /\ UNCHANGED <<args, options, pc, exit_code, session, fs, log_files, nflush, world, prior,
                   tty, notices, child, pty_in, stdin, stdout_data, FLUSH_LOGS, io,
                   result, now>>

\* the command reads the input queued for it
ChildRead ==
    /\ child.pc = "running"
    /\ SessionRuns
    /\ pty_in.taken < SizeOf(pty_in.data)
    /\ pty_in' = [pty_in EXCEPT !.taken = SizeOf(pty_in.data)]
    /\ UNCHANGED <<args, options, pc, exit_code, session, fs, log_files, nflush, world, prior,
                   tty, notices, child, pty_out, stdin, stdout_data, FLUSH_LOGS, io,
                   result, now, env>>

\* the ways the command can end by itself in this environment
Deaths ==
    {[kind |-> "exited", code |-> c] : c \in {0, 1}}
    \cup (IF world.killed THEN {[kind |-> "signaled", code |-> SIGTERM]} ELSE {})

\* the command ends the way `st` says, or is ended by the SIGTERM sent to it:
\* its descriptors are closed
ChildExit(st) ==
    /\ child.pc = "running"
    /\ SessionRuns
    /\ child' = [child EXCEPT !.pc = "exiting",
                              !.status = IF child.sigterm
                                         THEN [kind |-> "signaled", code |-> SIGTERM]
                                         ELSE st]
    /\ UNCHANGED <<args, options, pc, exit_code, session, fs, log_files, nflush, world, prior,
                   tty, notices, pty_out, pty_in, stdin, stdout_data, FLUSH_LOGS, io,
                   result, now, env>>

\* the ended child becomes waitable
ChildZombie ==
    /\ child.pc = "exiting"
    /\ SessionRuns
    /\ child' = [child EXCEPT !.pc = "zombie"]
    /\ UNCHANGED <<args, options, pc, exit_code, session, fs, log_files, nflush, world, prior,
                   tty, notices, pty_out, pty_in, stdin, stdout_data, FLUSH_LOGS, io,
                   result, now, env>>

(* ------------------------------ the caller ----------------------------- *)
\* n bytes arrive on stdin
StdinArrive(n) ==
    /\ SessionRuns
    /\ ~stdin.eof
    /\ env.chunks > 0
    /\ stdin' = [stdin EXCEPT !.w = @ + n]
    /\ env' = [env EXCEPT !.chunks = @ - 1]
    /\ UNCHANGED <<args, options, pc, exit_code, session, fs, log_files, nflush, world, prior,
                   tty, notices, child, pty_out, pty_in, stdout_data, FLUSH_LOGS, io,
                   result, now>>

\* stdin reaches its end, after the data
StdinEof ==
    /\ SessionRuns
    /\ env.eof
    /\ env.chunks = 0
    /\ stdin' = [stdin EXCEPT !.eof = TRUE]
    /\ env' = [env EXCEPT !.eof = FALSE]
    /\ UNCHANGED <<args, options, pc, exit_code, session, fs, log_files, nflush, world, prior,
                   tty, notices, child, pty_out, pty_in, stdout_data, FLUSH_LOGS, io,
                   result, now>>

(* --------------------------- specification ----------------------------- *)
Next ==
    \/ ParseArgs
    \/ InstallHandler
    \/ OpenSink
    \/ GetTermios
    \/ OpenPty
    \/ ConfigureEcho
    \/ Fork
    \/ SetNonblock
    \/ Select
    \/ SelectInterrupted
    \/ Sigusr1
    \/ WaitpidInterrupted
    \/ CheckAndReadStdin
    \/ WriteAll
    \/ WriteRetry
    \/ ReadMaster
    \/ Restore
    \/ Finish
    \/ ChildExec
    \/ \E n \in WriteSizes : ChildWrite(n)
    \/ ChildRead
    \/ \E st \in Deaths : ChildExit(st)
    \/ ChildZombie
    \/ \E n \in StdinSizes : StdinArrive(n)
    \/ StdinEof

Spec == Init /\ [][Next]_vars

(* ----------------------- a later run of the program -------------------- *)
\* the program is run again on the same files, with or without --append
NextSession ==
    /\ pc = "exit"
    /\ session < MaxSessions
    /\ \E a \in BOOLEAN : args' = [args EXCEPT !.append = a]
    /\ session' = session + 1
    /\ prior' = fs
    /\ options' = NoOptions
    /\ pc' = "uumain"
    /\ exit_code' = 0
    /\ log_files' = {}
    /\ nflush' = [s \in Sinks |-> 0]
    /\ tty' = [isatty |-> world.isatty, echo |-> world.echo, termios |-> NoTermios,
               pty |-> FALSE, slave_echo |-> TRUE, echo_applied |-> FALSE,
               winsize |-> FALSE, nonblock |-> {}]
    /\ notices' = <<>>
    /\ child' = NoChild
    /\ pty_out' = [w |-> 0, r |-> 0]
    /\ pty_in' = [data |-> <<>>, taken |-> 0]
    /\ stdin' = [w |-> 0, r |-> 0, eof |-> world.eof = "start"]
    /\ stdout_data' = <<>>
    /\ FLUSH_LOGS' = FALSE
    /\ io' = IoInit
    /\ result' = NoResult
    /\ now' = 0
    /\ env' = EnvInit(world)
    /\ UNCHANGED <<fs, world>>

\* runs with a signal, a chunk of input and one write of the child, on files that
\* exist or not
AppendScenarios ==
    { Scenario([BaseArgs EXCEPT !.append = a], [BaseEnv EXCEPT !.writes = 1, !.pre = p]) :
        a \in BOOLEAN, p \in {"absent", "single"} }

InitAppend == \E sc \in AppendScenarios : InitWith(sc)

NextAppend == Next \/ NextSession

SpecAppend == InitAppend /\ [][NextAppend]_vars

(* --------------------------- the parent is scheduled -------------------- *)
\* a run with a signal, a chunk of input and one write of the child
FairScenarios ==
    { Scenario([BaseArgs EXCEPT !.ret = TRUE], [BaseEnv EXCEPT !.writes = 1]) }

InitFair == \E sc \in FairScenarios : InitWith(sc)

\* the steps of the parent process, from uumain to its exit
ParentStep ==
    \/ ParseArgs
    \/ InstallHandler
    \/ OpenSink
    \/ GetTermios
    \/ OpenPty
    \/ ConfigureEcho
    \/ Fork
    \/ SetNonblock
    \/ Select
    \/ WaitpidInterrupted
    \/ CheckAndReadStdin
    \/ WriteAll
    \/ WriteRetry
    \/ ReadMaster
    \/ Restore
    \/ Finish

\* the parent is not suspended for ever; nothing is asked of the child, of
\* the caller or of the signals
SpecFair == InitFair /\ [][Next]_vars /\ WF_vars(ParentStep)

(* =============================== claims ================================ *)
InSession(r) == r.sess = session

\* the bytes of `data` that this session wrote
SessionData(data) == SelectSeq(data, InSession)

\* the first k bytes of stream src of this session
Prefix(src, k) == IF k = 0 THEN <<>> ELSE <<Run(session, src, 1, k)>>

\* data is the first bytes, at most k of them, of stream src
IsPrefix(data, src, k) ==
    \/ data = <<>>
    \/ /\ Len(data) = 1
       /\ data[1].hi \in 1..k
       /\ data = Prefix(src, data[1].hi)

\* no step failed in this run
NoFault == broken = {}

\* C1: with no output limit, no failure and no signal, once handle_io has returned after
\* the child terminated, the transcript holds every byte the child wrote to the
\* pty.
C1_AllChildOutputInTranscript ==
    (/\ pc = "done_msg"
     /\ result.kind = "Ok"
     /\ NoFault
     /\ world.sigs = 0
     /\ options.output_limit = NoLimit
     /\ SlaveClosed)
    => SessionData(fs[OUT].data) = Prefix("pty", pty_out.w)

\* C2: with return-exit-status set and a successful setup, the process exit
\* code is the exit code of the terminated child.
C2_ExitCodeMirrorsChild ==
    (/\ pc = "exit"
     /\ options.return_exit_status
     /\ result.kind = "Ok"
     /\ NoFault
     /\ options.output_limit = NoLimit
     /\ child.status.kind = "exited")
    => exit_code = child.status.code

C3_LimitBound ==
    options.output_limit # NoLimit
    => SizeOf(SessionData(fs[OUT].data)) <= options.output_limit - 1 + BUFFER_LEN

C3_NoReadAfterLimit ==
    (options.output_limit # NoLimit /\ io.total_bytes >= options.output_limit)
    => pty_out'.r = pty_out.r

C4_TranscriptWithinTestMargin ==
    (pc = "exit" /\ options.output_limit # NoLimit)
    => SizeOf(SessionData(fs[OUT].data)) <= options.output_limit + 100

\* C5: while no write fails, the transcript written by the session is a prefix
\* of what the child wrote to the pty, and what was written to the pty master is
\* a prefix of what was read from stdin.
C5_FaithfulRelay ==
    (broken \cap WriteFaults = {})
    => /\ IsPrefix(SessionData(fs[OUT].data), "pty", pty_out.w)
       /\ IsPrefix(pty_in.data, "stdin", stdin.r)

\* C5 witness: a full buffer of output relayed, and input relayed in two writes
C5_Witness ==
    /\ broken = {}
    /\ fs[OUT].data = Prefix("pty", BUFFER_LEN)
    /\ pty_in.data = Prefix("stdin", STDIN_BUFFER_LEN)
    /\ pty_in.taken = PtyInputCap

\* the transcript was opened in this run (it is the first sink opened)
TranscriptOpened == io.next_sink > 1

\* C6: once a run has opened the transcript, the file is what it held before
\* the run followed by what this run wrote when the run appends, and only what
\* this run wrote when it does not; so a second run with append leaves the first
\* run's transcript followed by its own.
C6_AppendKeepsTruncateClears ==
    TranscriptOpened
    => fs[OUT].data = (IF options.append THEN prior[OUT].data ELSE <<>>)
                       \o SessionData(fs[OUT].data)

\* C6 witness: the first run replaced old content, the second run appended
C6_Witness ==
    /\ world.pre = "single"
    /\ session = 2
    /\ options.append
    /\ pc = "exit"
    /\ fs[OUT].data = <<Run(1, "pty", 1, BUFFER_LEN), Run(2, "pty", 1, BUFFER_LEN - 1)>>

(* ----------------------------- timing lines ---------------------------- *)
\* the text before the first line feed of t, or all of t
RECURSIVE FirstLine(_)
FirstLine(t) ==
    IF t = <<>> \/ Head(t) = "\n" THEN <<>> ELSE <<Head(t)>> \o FirstLine(Tail(t))

\* the lines of t
RECURSIVE Lines(_)
Lines(t) ==
    IF t = <<>> THEN <<>>
    ELSE LET l == FirstLine(t)
         IN IF Len(l) = Len(t) THEN <<l>>
            ELSE <<l>> \o Lines(SubSeq(t, Len(l) + 2, Len(t)))

IsDigits(t) == t # <<>> /\ \A i \in 1..Len(t) : t[i] \in DigitSet

\* ^\d+\.\d+ \d+$
MatchesClassic(l) ==
    \E i \in 1..Len(l) : \E j \in 1..Len(l) :
        /\ i < j
        /\ l[i] = "."
        /\ l[j] = " "
        /\ IsDigits(SubSeq(l, 1, i - 1))
        /\ IsDigits(SubSeq(l, i + 1, j - 1))
        /\ IsDigits(SubSeq(l, j + 1, Len(l)))

\* ^[IO] \d+\.\d+ \d+$
MatchesAdvanced(l) ==
    /\ Len(l) > 2
    /\ l[1] \in {"I", "O"}
    /\ l[2] = " "
    /\ MatchesClassic(SubSeq(l, 3, Len(l)))

\* what this run has written to the timing file, once the sinks are open
TimingWritten ==
    LET old == IF options.append THEN Len(prior[TIMING].data) ELSE 0
    IN SubSeq(fs[TIMING].data, old + 1, Len(fs[TIMING].data))

TimingSession == options.log_timing_file /\ child.pc # "none"

NonEmptyLines(t) == {Lines(t)[i] : i \in 1..Len(Lines(t))} \ {<<>>}

\* C7: with the classic format every non-empty line this run wrote to the
\* timing file reads <digits>.<digits> <digits>, without a tag.
C7_ClassicLinesUntagged ==
    (TimingSession /\ options.logging_format = "classic")
    => \A l \in NonEmptyLines(TimingWritten) : MatchesClassic(l)

C8_LinesWellFormed ==
    (TimingSession /\ options.logging_format = "advanced")
    => \A l \in NonEmptyLines(TimingWritten) : MatchesAdvanced(l)

\* the characters a step appends to the timing file
TimingAppended ==
    SubSeq(fs'[TIMING].data, Len(fs[TIMING].data) + 1, Len(fs'[TIMING].data))

C8_TagTellsDirection ==
    (/\ options.logging_format = "advanced"
     /\ TIMING \in log_files
     /\ Len(fs'[TIMING].data) > Len(fs[TIMING].data))
    => /\ Cardinality(NonEmptyLines(TimingAppended)) = 1
       /\ (TimingAppended[1] = "I") = (pc = "write_all" /\ pty_out'.r = pty_out.r)
       /\ (TimingAppended[1] = "O") = (pc = "master" /\ pty_out'.r > pty_out.r)

\* C8: with the advanced format every non-empty line this run wrote to the
\* timing file reads [IO] <digits>.<digits> <digits>; a transfer from stdin to
\* the pty appends a line tagged I and a transfer from the pty to stdout a line
\* tagged O.
C8_AdvancedLinesTagged == []C8_LinesWellFormed /\ [][C8_TagTellsDirection]_vars

\* C8 witness: a timing file with a line for an input transfer and a line for
\* an output transfer
C8_Witness ==
    /\ options.logging_format = "advanced"
    /\ TimingSession
    /\ \E l \in NonEmptyLines(TimingWritten) : l[1] = "I"
    /\ \E l \in NonEmptyLines(TimingWritten) : l[1] = "O"
    /\ pc = "exit"

\* C9: a command line with both --log-io and --log-out is rejected with exit
\* code 1; no file is opened and no child is spawned.
C9_LogIoExcludesLogOut ==
    (args.log_io /\ args.log_out)
    => /\ log_files = {}
       /\ fs = prior
       /\ child.pc = "none"
       /\ (pc = "exit" => exit_code = 1)

\* C10: no signal that set the flush flag while the loop was running is left
\* unconsumed when the loop has ended.
C10_NoSignalLeftAtLoopExit ==
    pc \in {"restore", "done_msg"} => ~(env.unconsumed /\ FLUSH_LOGS)

\* C10 (amended): an iteration that reaches its flush check with the flag set
\* clears the flag and flushes every open sink once.
C10_FlushCheckConsumesFlag ==
    [][(pc = "waitpid" /\ pc' # "waitpid" /\ FLUSH_LOGS)
       => /\ ~FLUSH_LOGS'
          /\ \A s \in Sinks :
                nflush'[s] = nflush[s] + (IF s \in log_files THEN 1 ELSE 0)]_vars

\* C10 witness: the five sinks are open and the signal had each flushed once
C10_Witness ==
    /\ ~options.flush
    /\ \A s \in Sinks : nflush[s] = 1
    /\ ~FLUSH_LOGS
    /\ pc = "master"

(* ------------------------------ failures ------------------------------- *)
\* the transcript named on the command line has several links and is opened
\* with neither --append nor --force
UnsafeTranscript ==
    /\ ~ArgsRejected(args)
    /\ ~args.append
    /\ ~args.force
    /\ prior[OUT].exists
    /\ prior[OUT].nlink > 1

C11_TranscriptRefused ==
    UnsafeTranscript
    => /\ pc \in {"uumain", "sigaction", "open", "exit"}
       /\ io.next_sink = 1
       /\ log_files = {}
       /\ fs = prior
       /\ child.pc = "none"
       /\ (pc = "exit" => exit_code = 1)

\* the sink the next step of run_script opens
NextSink == SinkOrder[io.next_sink]

C11_OthersOpened ==
    (/\ pc = "open"
     /\ <<pc, io>>' # <<pc, io>>
     /\ Configured(options, NextSink)
     /\ ("open_" \o NextSink) \notin broken
     /\ (NextSink # OUT \/ options.append \/ options.force))
    => /\ NextSink \in log_files'
       /\ fs'[NextSink].exists
       /\ pc' # "exit"

\* C11: a transcript with more than one link, opened with neither append nor
\* force, is refused: exit code 1, nothing opened, no child.  With append or
\* force it is opened, and the input, output, combined and timing logs are
\* opened whatever their link count.
C11_LinkCountRefusal == []C11_TranscriptRefused /\ [][C11_OthersOpened]_vars

\* C11 witness: the run ended at the refused transcript
C11_Witness ==
    /\ UnsafeTranscript
    /\ args.log_out
    /\ pc = "exit"
    /\ exit_code = 1
    /\ fs = prior
    /\ env.handler

\* a step of the setup that this run reaches fails: the opening of a configured
\* sink, tcgetattr or tcsetattr (made when stdin is a terminal), or openpty
SetupFails ==
    /\ ~ArgsRejected(args)
    /\ "sigaction" \notin broken
    /\ \/ \E s \in Sinks : Configured(BuildOptions(args), s) /\ ("open_" \o s) \in broken
       \/ world.isatty /\ "tcgetattr" \in broken
       \/ "openpty" \in broken
       \/ world.isatty /\ "tcsetattr" \in broken

\* C12: when the opening of a sink, tcgetattr, openpty or tcsetattr fails, the
\* run never gets past the setup: no start notice, no fork, no child, no I/O;
\* it ends with exit code 1 and its sinks closed.
C12_FailedSetupNeverForks ==
    SetupFails
    => /\ pc \in {"uumain", "sigaction", "open", "tcgetattr", "openpty", "tcsetattr", "exit"}
       /\ child.pc = "none"
       /\ notices = <<>>
       /\ tty.nonblock = {}
       /\ pty_out.r = 0
       /\ stdin.r = 0
       /\ stdout_data = <<>>
       /\ (pc = "exit" => exit_code = 1 /\ log_files = {})

\* C12 witness: the last step of the setup failed, with the sinks and the pty open
C12_Witness ==
    /\ "tcsetattr" \in broken
    /\ SetupFails
    /\ tty.pty
    /\ fs[TIMING].exists
    /\ pc = "exit"
    /\ exit_code = 1
    /\ child.pc = "none"

\* C13: when O_NONBLOCK cannot be set on stdin or on the pty master, handle_io
\* reads and writes nothing and the process ends with exit code 1, with or
\* without --return.
C13_NonblockFailureExitsOne ==
    (broken \cap {"fcntl_stdin", "fcntl_master"} # {})
    => /\ pty_out.r = 0
       /\ stdin.r = 0
       /\ stdout_data = <<>>
       /\ pty_in.data = <<>>
       /\ (pc = "exit" /\ child.pc # "none" => exit_code = 1)

\* C14: when the child is spawned the slave side echoes under `always`, does
\* not echo under `never`, and under `auto` echoes exactly when stdin is not a
\* terminal.
C14_EchoFollowsPolicy ==
    child.pc # "none"
    => tty.slave_echo = (CASE options.echo_mode = "always" -> TRUE
                           [] options.echo_mode = "never" -> FALSE
                           [] OTHER -> ~tty.isatty)

\* sink s is open in this session and writes to it succeed
Writable(s) == Configured(options, s) /\ ("w_" \o s) \notin broken

\* the bytes of stdin whose transfer has been logged
InputLogged ==
    stdin.r - (IF pc \in {"write_all", "would_block"} THEN RunLen(io.stdin_buffer) ELSE 0)

\* C15: in a session where writes to some sink, to stdout or to the pty fail,
\* every other sink still receives every transfer, the loop ends only because
\* the child was seen to exit, the pty reached its end or the limit was met,
\* and handle_io returns Ok with the recorded status.
C15_WriteFailuresDoNotAbort ==
    (broken \subseteq WriteFaults /\ child.pc # "none")
    => /\ \A s \in {OUT, LOG_OUT} :
             Writable(s) => SessionData(fs[s].data) = Prefix("pty", pty_out.r)
       /\ "w_stdout" \notin broken => stdout_data = Prefix("pty", pty_out.r)
       /\ Writable(LOG_IN) => SessionData(fs[LOG_IN].data) = Prefix("stdin", InputLogged)
       /\ Writable(LOG_IO)
             => SizeOf(SessionData(fs[LOG_IO].data)) = pty_out.r + InputLogged
       /\ Writable(TIMING) => (TimingWritten = <<>>) = (pty_out.r + InputLogged = 0)
       /\ pc = "restore"
             => \/ io.child_exited
                \/ SlaveClosed
                \/ LimitReached(io.total_bytes, options.output_limit)
       /\ pc \in {"done_msg", "exit"} => result = Ok(io.exit_status)

\* C15 witness: every write to the transcript failed, the logs are complete
C15_Witness ==
    /\ "w_out_file" \in broken
    /\ pc = "exit"
    /\ result.kind = "Ok"
    /\ fs[OUT].data = <<>>
    /\ fs[LOG_OUT].data = Prefix("pty", BUFFER_LEN)
    /\ fs[LOG_IN].data = Prefix("stdin", STDIN_BUFFER_LEN)

\* C16: once handle_io has stopped looping and returned, stdin is blocking
\* again (unless the restoring fcntl itself failed), and a failed restore leaves
\* the returned status as it was.
C16_StdinBlockingAfterLoop ==
    /\ (/\ pc \in {"done_msg", "exit"}
        /\ "restore" \notin broken
        /\ "fcntl_master" \notin broken)
       => "stdin" \notin tty.nonblock
    /\ (pc \in {"done_msg", "exit"} /\ "restore" \in broken)
       => result = Ok(io.exit_status)

C17_CounterIsOutputRead == io.total_bytes = pty_out.r

C17_InputLeavesCounter == stdin'.r # stdin.r => io'.total_bytes = io.total_bytes

C17_KillNeedsOutput ==
    env.kills > 0 => options.output_limit # NoLimit /\ pty_out.r >= options.output_limit

\* C17: the byte counter compared with the limit is the number of bytes read
\* from the pty master; a read of stdin leaves it unchanged, and the child is
\* sent SIGTERM only when the bytes read from the pty have reached the limit.
C17_LimitCountsOutputOnly ==
    /\ [](C17_CounterIsOutputRead /\ C17_KillNeedsOutput)
    /\ [][C17_InputLeavesCounter]_vars

\* C17 witness: as many input bytes as the limit were relayed, no output yet
C17_Witness ==
    /\ options.output_limit = KIB
    /\ stdin.r = KIB
    /\ pty_in.data = Prefix("stdin", KIB)
    /\ io.total_bytes = 0
    /\ env.kills = 0
    /\ pc = "select"

\* the bytes a step reads from the pty
BytesRead == Run(session, "pty", pty_out.r + 1, pty_out'.r)

C18_LimitStep ==
    (/\ options.output_limit # NoLimit
     /\ io.total_bytes < options.output_limit
     /\ io'.total_bytes >= options.output_limit)
    => /\ env'.kills = env.kills + 1
       /\ child.pc \in {"forked", "running"} => child'.sigterm
       /\ pc' = "restore"
       /\ "w_stdout" \notin broken => stdout_data' = AppendRun(stdout_data, BytesRead)
       /\ \A s \in {OUT, LOG_OUT, LOG_IO} :
             Writable(s) => fs'[s].data = AppendRun(fs[s].data, BytesRead)
       /\ Writable(TIMING) => Len(fs'[TIMING].data) > Len(fs[TIMING].data)

C18_LoopBelowLimit ==
    /\ (options.output_limit # NoLimit /\ pc \in LoopPcs)
       => io.total_bytes < options.output_limit
    /\ env.kills <= 1
    /\ (env.kills = 1 /\ pc \in {"done_msg", "exit"}) => result.kind = "Ok"

\* C18: the read that takes the counter to the limit or beyond is relayed to
\* stdout, the transcript and the configured logs, and the same step sends
\* SIGTERM to the child and leaves the loop; the loop never runs with the counter
\* at the limit, and handle_io then returns Ok.
C18_LimitEndsSession == []C18_LoopBelowLimit /\ [][C18_LimitStep]_vars

\* C18 witness: the limit was met exactly, by a read that was logged in full
C18_Witness ==
    /\ options.output_limit = KIB
    /\ options.log_out_file
    /\ io.total_bytes = KIB
    /\ env.kills = 1
    /\ child.sigterm
    /\ fs[LOG_OUT].data = Prefix("pty", KIB)
    /\ stdout_data = Prefix("pty", KIB)
    /\ result.kind = "Ok"
    /\ pc = "done_msg"

\* the status a check records for a child that ended the way `st` says
Recorded(st) == IF st.kind = "exited" THEN st.code ELSE SIGNAL_BASE + st.code

\* C19: handle_io returns the status recorded by the status check that saw the
\* child's exit, and 0 when no status check saw it, as when the limit ended the
\* loop; the SIGTERM sent for the limit never shows as 128 + SIGTERM.
C19_ReturnsRecordedStatus ==
    (pc \in {"done_msg", "exit"} /\ result.kind = "Ok")
    => /\ result.status = (IF io.child_exited THEN Recorded(child.status) ELSE 0)
       /\ (env.kills = 1 /\ ~world.killed) => result.status # SIGNAL_BASE + SIGTERM

\* C19 witness: the limit ended the loop, the child was sent SIGTERM, the
\* result is 0
C19_Witness ==
    /\ env.kills = 1
    /\ child.sigterm
    /\ ~io.child_exited
    /\ result.kind = "Ok"
    /\ result.status = 0
    /\ options.return_exit_status
    /\ pc = "exit"
    /\ exit_code = 0

C20_StatusRecorded ==
    (~io.child_exited /\ io'.child_exited)
    => /\ child.pc = "zombie"
       /\ io'.exit_status = Recorded(child.status)

C20_StatusKept ==
    (io.child_exited /\ session' = session)
    => /\ io'.child_exited
       /\ io'.exit_status = io.exit_status

\* C20: a status check that finds the child ended records its exit code, or 128
\* plus the number of the signal that ended it, and the recorded status never
\* changes afterwards.
C20_StatusCheckRecords == [][C20_StatusRecorded /\ C20_StatusKept]_vars

\* C20 witness: the child was ended by a signal and the status was recorded
\* and returned
C20_Witness ==
    /\ child.status = [kind |-> "signaled", code |-> SIGTERM]
    /\ env.kills = 0
    /\ io.child_exited
    /\ io.exit_status = SIGNAL_BASE + SIGTERM
    /\ pc = "exit"
    /\ exit_code = SIGNAL_BASE + SIGTERM

(* ------------------------------- the loop ------------------------------ *)
\* the loop is Running before the step and over after it
LeavesLoop == pc \in LoopPcs /\ pc' \notin LoopPcs

\* the pty has nothing left and no process can write to it any more
PtyAtEnd == pty_out.w = pty_out.r /\ child.pc \in {"exiting", "zombie", "reaped"}

C21_LeavesOnlyFor ==
    LeavesLoop
    => \/ io'.child_exited
       \/ pc = "master" /\ "master" \in io.read_fds /\ PtyAtEnd
       \/ /\ pc = "master"
          /\ options.output_limit # NoLimit
          /\ io'.total_bytes >= options.output_limit
          /\ env'.kills = env.kills + 1
       \/ pc = "master" /\ "master" \in io.read_fds /\ "read_master" \in broken
       \/ pc = "select" /\ "select" \in broken

\* C21: the loop stops being Running only when a status check has seen the
\* child's exit, when the pty is at its end, when the limit is met and SIGTERM
\* sent, or on a failed read of the pty or a failed select; so an empty or
\* would-block read of stdin, a select timeout and a consumed flush flag leave
\* it Running.
C21_LoopExits == [][C21_LeavesOnlyFor]_vars

\* C21 witness: stdin gave a zero-byte read and the loop waits again
C21_Witness ==
    /\ pc = "select"
    /\ stdin.eof
    /\ stdin.r = stdin.w
    /\ io.read_fds = {"stdin"}
    /\ child.pc = "running"
    /\ ~io.child_exited

\* the status check of the normal path finds the child ended
C22_ExitSeen == pc = "waitpid" /\ pc' # "waitpid" /\ ~io.child_exited /\ io'.child_exited

C22_StdinStillRead ==
    C22_ExitSeen
    => /\ io'.read_fds = io.read_fds
       /\ IF "stdin" \in io.read_fds /\ stdin.w > stdin.r /\ "read_stdin" \notin broken
          THEN /\ stdin'.r = stdin.r + Min(stdin.w - stdin.r, STDIN_BUFFER_LEN)
               /\ pc' = "write_all"
          ELSE pc' = "master"

C22_PtyStillRead ==
    (/\ pc = "master"
     /\ pc' # "master"
     /\ io.child_exited
     /\ "master" \in io.read_fds
     /\ pty_out.w > pty_out.r
     /\ "read_master" \notin broken)
    => /\ pty_out'.r = pty_out.r + Min(pty_out.w - pty_out.r, BUFFER_LEN)
       /\ Writable(OUT) => fs'[OUT].data = AppendRun(fs[OUT].data, BytesRead)
       /\ "w_stdout" \notin broken => stdout_data' = AppendRun(stdout_data, BytesRead)
       /\ pc' = "restore"

C22_NoWaitAfterExitSeen ==
    io.child_exited
    => pc \in {"write_all", "would_block", "master", "restore", "done_msg", "exit"}

\* C22: when the status check of an iteration finds the child ended, the
\* iteration still reads stdin and the pty if select reported them, relays and
\* logs what it read, and then the loop ends without another select.
C22_IterationCompletes ==
    /\ []C22_NoWaitAfterExitSeen
    /\ [][C22_StdinStillRead /\ C22_PtyStillRead]_vars

\* C22 witness: the exit was seen, stdin was read in the same iteration and
\* output waits to be read
C22_Witness ==
    /\ pc = "write_all"
    /\ io.child_exited
    /\ io.remaining # NoRun
    /\ "master" \in io.read_fds
    /\ pty_out.w > pty_out.r

(* ---------------------------------------------------------------------- *)
\* the program reads the pty and finds no byte there
C23_EmptyRead ==
    /\ pc = "master"
    /\ pc' # "master"
    /\ "master" \in io.read_fds
    /\ "read_master" \notin broken
    /\ pty_out.w = pty_out.r

\* the slave side is still held by the child: the read would block
C23_SlaveHeld == child.pc \in {"forked", "running"}

\* a zero-byte read ends the loop, a would-block read ends it only through the
\* loop condition
C23_ReadEnds ==
    C23_EmptyRead
    => /\ pc' = IF C23_SlaveHeld /\ ~io.child_exited THEN "select" ELSE "restore"
       /\ UNCHANGED <<io, result, fs, stdout_data, notices>>

\* what follows the loop returns Ok with the status the loop holds
C23_ReturnsOk ==
    (pc = "restore" /\ pc' # "restore") => result' = Ok(io.exit_status)

\* C23: a zero-byte read from the pty ends the loop and handle_io returns Ok;
\* a read from the pty that would block leaves the loop running
C23_EofIsNotAnError == [][C23_ReadEnds /\ C23_ReturnsOk]_vars

\* C23 witness: where select reports the pty without cause, handle_io has
\* returned Ok after a zero-byte read of the pty
C23_Witness ==
    /\ world.spurious
    /\ pc = "done_msg"
    /\ result.kind = "Ok"
    /\ pty_out.r = pty_out.w
    /\ ~io.child_exited
    /\ "master" \in io.read_fds
    /\ NoFault

(* ---------------------------------------------------------------------- *)
\* handle_io returns an error only where a step of it fails
C24_ErrNeedsFault ==
    result.kind = "Err" => broken \cap (SetupFaults \cup {"select"}) # {}

\* the signal that interrupts select is not turned into a result
C24_SelectInterrupted ==
    (pc = "select" /\ pc' = "eintr") => UNCHANGED <<result, io, stdin, pty_out>>

\* the interrupted iteration: the status check, no read, the loop condition
C24_InterruptedIteration ==
    (pc = "eintr" /\ pc' # "eintr")
    => /\ io'.child_exited = (child.pc = "zombie")
       /\ io'.child_exited => child'.pc = "reaped"
       /\ pc' = IF child.pc = "zombie" THEN "restore" ELSE "select"
       /\ UNCHANGED <<result, stdin, pty_out, pty_in, fs, stdout_data>>

\* C24: a select interrupted by a signal is not an error of handle_io: the
\* iteration checks the child's status without blocking, reads neither stdin
\* nor the pty, and goes to the loop condition, which ends the loop only if
\* the check found the child ended
C24_InterruptedWaitIsNoError ==
    /\ []C24_ErrNeedsFault
    /\ [][C24_SelectInterrupted /\ C24_InterruptedIteration]_vars

\* C24 witness: the signal was delivered, the child's exit was seen, output is
\* left unread and no descriptor was reported
C24_Witness ==
    /\ pc = "restore"
    /\ env.unconsumed
    /\ FLUSH_LOGS
    /\ io.child_exited
    /\ io.read_fds = {}
    /\ pty_out.r = 0
    /\ pty_out.w > 0
    /\ NoFault

(* ---------------------------------------------------------------------- *)
\* a step of the signal handler
C25_HandlerRuns == env'.sigs < env.sigs

\* the step of the loop that holds FLUSH_LOGS.swap(false)
C25_FlushCheck == pc = "waitpid" /\ pc' # "waitpid"

\* C25 (as stated): every iteration of the loop, the interrupted one included,
\* tests and clears the flush flag
C25_EveryIterationClears ==
    [][((pc \in {"waitpid", "eintr"} /\ pc' # pc) => ~FLUSH_LOGS')]_vars

\* the flag is set by the handler alone and cleared by the flush check alone
C25_SetAndClear ==
    /\ C25_HandlerRuns => FLUSH_LOGS'
    /\ (~FLUSH_LOGS /\ FLUSH_LOGS') => C25_HandlerRuns
    /\ (FLUSH_LOGS /\ ~FLUSH_LOGS') => C25_FlushCheck

\* the flush check clears the flag and acts on the value it found
C25_CheckObserves ==
    C25_FlushCheck
    => /\ ~FLUSH_LOGS'
       /\ nflush' = IF FLUSH_LOGS THEN [s \in Sinks |-> nflush[s] + (IF s \in log_files THEN 1 ELSE 0)]
                     ELSE nflush

\* the interrupted iteration holds no flush check
C25_InterruptedSkipsCheck ==
    (pc = "eintr" /\ pc' # "eintr") => UNCHANGED <<FLUSH_LOGS, nflush>>

\* C25 (amended): the flush flag is set only by the signal handler and cleared
\* only by the loop's test-and-clear; every iteration whose select was not
\* interrupted performs it once and flushes if it found the flag set; the
\* iteration whose select was interrupted performs none and leaves the flag
\* as the handler set it
C25_FlagProtocol ==
    [][C25_SetAndClear /\ C25_CheckObserves /\ C25_InterruptedSkipsCheck]_vars

\* C25 witness: the interrupted iteration is over, the flag is still set and
\* nothing was flushed
C25_Witness ==
    /\ pc = "select"
    /\ FLUSH_LOGS
    /\ env.unconsumed
    /\ env.sigs = 0
    /\ child.pc = "running"
    /\ log_files = Sinks
    /\ \A s \in Sinks : nflush[s] = 0

(* ---------------------------------------------------------------------- *)
\* the sources of the bytes this session added to sink s
C26_Sources(s) == {fs[s].data[i].src : i \in {j \in 1..Len(fs[s].data) : InSession(fs[s].data[j])}}

\* a chunk read from the pty goes to the transcript, the output log and the
\* combined log, and not to the input log
C26_OutputChunk ==
    pty_out'.r > pty_out.r
    => /\ \A s \in {OUT, LOG_OUT, LOG_IO} :
             fs'[s].data = IF Writable(s) THEN AppendRun(fs[s].data, BytesRead)
                           ELSE fs[s].data
       /\ fs'[LOG_IN] = fs[LOG_IN]

\* a chunk read from stdin, once relayed, goes to the input log and the
\* combined log, and not to the transcript or the output log
C26_InputChunk ==
    (pc = "write_all" /\ pc' = "master")
    => /\ \A s \in {LOG_IN, LOG_IO} :
             fs'[s].data = IF Writable(s) THEN AppendRun(fs[s].data, io.stdin_buffer)
                           ELSE fs[s].data
       /\ fs'[OUT] = fs[OUT]
       /\ fs'[LOG_OUT] = fs[LOG_OUT]

\* no sink holds bytes of the other direction
C26_Separated ==
    /\ C26_Sources(OUT) \subseteq {"pty"}
    /\ C26_Sources(LOG_OUT) \subseteq {"pty"}
    /\ C26_Sources(LOG_IN) \subseteq {"stdin"}
    /\ C26_Sources(LOG_IO) \subseteq {"pty", "stdin"}

\* C26: every chunk read from the pty is written to the transcript and to the
\* configured output and combined logs, every chunk read from stdin to the
\* configured input and combined logs; input never reaches the transcript or
\* the output log, output never reaches the input log
C26_ChunksReachMatchingSinks ==
    /\ []C26_Separated
    /\ [][C26_OutputChunk /\ C26_InputChunk]_vars

\* C26 witness: with the three logs configured, both directions were logged
C26_Witness ==
    /\ {LOG_IN, LOG_OUT, LOG_IO} \subseteq log_files
    /\ C26_Sources(LOG_IO) = {"pty", "stdin"}
    /\ C26_Sources(LOG_IN) = {"stdin"}
    /\ C26_Sources(LOG_OUT) = {"pty"}
    /\ C26_Sources(OUT) = {"pty"}

(* ---------------------------------------------------------------------- *)
\* a transfer with n > 0: a read of stdin, a read of the pty
C27_InputRead == stdin'.r > stdin.r
C27_OutputRead == pty_out'.r > pty_out.r

\* without a timing sink the timing file is left as the run found it
C27_OnlyWhenConfigured ==
    ~options.log_timing_file => fs[TIMING] = prior[TIMING]

\* every transfer measures from the baseline and moves the baseline to the
\* time of its clock read
C27_BaselineMoves ==
    (C27_InputRead \/ C27_OutputRead)
    => /\ io'.elapsed = now' - io.last_time
       /\ io'.last_time = now'

\* nothing else moves the baseline once the loop runs
C27_BaselineKept ==
    (pc \in LoopPcs /\ ~C27_InputRead /\ ~C27_OutputRead)
    => io'.last_time = io.last_time

\* the line of a transfer carries the elapsed time measured at its read
C27_LineCarriesElapsed ==
    /\ (C27_OutputRead /\ Writable(TIMING))
       => fs'[TIMING].data
            = fs[TIMING].data \o OutputTimingLine(options.logging_format,
                                                  now' - io.last_time,
                                                  pty_out'.r - pty_out.r)
    /\ (pc = "write_all" /\ pc' = "master" /\ Writable(TIMING))
       => fs'[TIMING].data
            = fs[TIMING].data \o InputTimingLine(options.logging_format,
                                                 io.elapsed,
                                                 RunLen(io.stdin_buffer))

\* C27: timing lines are written only when a timing sink is configured; every
\* transfer of either direction sets the baseline to the current time, whatever
\* sinks are configured, and the elapsed value of a line is the time since the
\* previous transfer, or since the start of the session for the first
C27_ElapsedBaseline ==
    /\ []C27_OnlyWhenConfigured
    /\ [][C27_BaselineMoves /\ C27_BaselineKept /\ C27_LineCarriesElapsed]_vars

\* C27 witness: input was read at a later time than the start, output was read
\* after it, and the timing file holds a line for each
C27_Witness ==
    /\ Writable(TIMING)
    /\ pc = "select"
    /\ stdin.r > 0
    /\ pty_out.r > 0
    /\ io.last_time = MaxTime
    /\ io.elapsed = 0
    /\ \E l \in NonEmptyLines(TimingWritten) : l[1] = "I"
    /\ \E l \in NonEmptyLines(TimingWritten) : l[1] = "O"

(* ---------------------------------------------------------------------- *)
\* C28: every iteration of the loop terminates: after select has returned, the
\* reads and writes of the iteration complete and the loop is back at select
\* or has ended, also when the child does not read its input and the queue of
\* the pty is full while write_all writes to it
C28_IterationTerminates ==
    (pc = "waitpid") ~> (pc \in {"select", "restore"})

(* ---------------------------------------------------------------------- *)
\* the child process has terminated
C29_ChildTerminated == child.pc \in {"exiting", "zombie", "reaped"}

C30_KillSent == env'.kills > env.kills

\* the call is made by the pty branch, with a limit set and reached, and the
\* loop ends with it
C30_KillStep ==
    C30_KillSent
    => /\ pc = "master"
       /\ pc' = "restore"
       /\ options.output_limit # NoLimit
       /\ io'.total_bytes >= options.output_limit
       /\ io.total_bytes < options.output_limit
       /\ env.kills = 0

\* the child is marked signalled by that call alone
C30_SignalledByKill == (~child.sigterm /\ child'.sigterm) => C30_KillSent

\* at most one call per session, none without a limit
C30_KillCount ==
    /\ env.kills <= 1
    /\ child.sigterm => env.kills = 1
    /\ options.output_limit = NoLimit => (env.kills = 0 /\ ~child.sigterm)

\* C30: the parent sends SIGTERM to the child only when an output limit is
\* configured and the counter of output bytes has reached it, at most once in
\* a session; without a limit the session never signals the child
C30_TermOnlyAtLimit ==
    /\ []C30_KillCount
    /\ [][C30_KillStep /\ C30_SignalledByKill]_vars

\* C30 witness: the session with a limit has ended, one SIGTERM was sent and
\* it reached the running child
C30_Witness ==
    /\ pc = "exit"
    /\ options.output_limit = KIB
    /\ io.total_bytes >= KIB
    /\ env.kills = 1
    /\ child.sigterm
    /\ child.pc = "running"

(* ---------------------------------------------------------------------- *)
\* the number a sequence of decimal digits stands for
C31_DigitValue(c) == CHOOSE d \in 0..9 : Digit[d + 1] = c

RECURSIVE C31_ParseDecimal(_)
C31_ParseDecimal(t) ==
    IF t = <<>> THEN 0
    ELSE 10 * C31_ParseDecimal(SubSeq(t, 1, Len(t) - 1)) + C31_DigitValue(t[Len(t)])

\* the last field of a line: what follows its last space
RECURSIVE C31_LastField(_)
C31_LastField(l) ==
    IF l = <<>> \/ l[Len(l)] = " " THEN <<>>
    ELSE C31_LastField(SubSeq(l, 1, Len(l) - 1)) \o <<l[Len(l)]>>

\* the byte count a timing line carries
C31_ByteCount(l) == C31_ParseDecimal(C31_LastField(l))

C31_IsTimingLine(l) == l # <<>>
C31_IsOutputLine(l) == l # <<>> /\ l[1] = "O"

\* the timing lines of t, in order
C31_TimingLines(t) == SelectSeq(Lines(t), C31_IsTimingLine)

\* the sum of the byte counts of the output lines among `lines`
RECURSIVE C31_OutputSum(_)
C31_OutputSum(lines) ==
    IF lines = <<>> THEN 0
    ELSE (IF C31_IsOutputLine(Head(lines)) THEN C31_ByteCount(Head(lines)) ELSE 0)
         + C31_OutputSum(Tail(lines))

\* the counter is what was read from the pty, what the transcript took and
\* what the output lines of the timing file add up to
C31_CounterMatches ==
    (child.pc # "none" /\ pc # "handle_io")
    => /\ io.total_bytes = pty_out.r
       /\ Writable(OUT) => SizeOf(SessionData(fs[OUT].data)) = io.total_bytes
       /\ Writable(TIMING) => C31_OutputSum(C31_TimingLines(TimingWritten)) = io.total_bytes

\* a transfer appends one timing line, with its byte count; no other step of
\* the loop appends to the timing file
C31_LinePerTransfer ==
    pc \in LoopPcs
    => IF Writable(TIMING) /\ (pty_out'.r > pty_out.r \/ (pc = "write_all" /\ pc' = "master"))
       THEN /\ Len(C31_TimingLines(TimingAppended)) = 1
            /\ C31_ByteCount(C31_TimingLines(TimingAppended)[1])
                 = IF pc = "master" THEN pty_out'.r - pty_out.r ELSE RunLen(io.stdin_buffer)
            /\ C31_IsOutputLine(C31_TimingLines(TimingAppended)[1]) = (pc = "master")
       ELSE fs'[TIMING] = fs[TIMING]

\* C31: at the end of every iteration the counter of output bytes is the
\* number of bytes handed to the transcript in this session and, with a timing
\* sink, the sum of the byte counts of the output lines of the timing file;
\* every transfer with n > 0 has one timing line
C31_CounterAgreesWithSinks ==
    /\ []C31_CounterMatches
    /\ [][C31_LinePerTransfer]_vars

\* C31 witness: two reads of the pty, of 1024 and 1023 bytes, each with its
\* line in the timing file
C31_Witness ==
    /\ pc = "select"
    /\ Writable(TIMING)
    /\ Writable(OUT)
    /\ io.total_bytes = 2 * BUFFER_LEN - 1
    /\ Len(C31_TimingLines(TimingWritten)) = 2
    /\ C31_ByteCount(C31_TimingLines(TimingWritten)[1]) = BUFFER_LEN

(* ---------------------------------------------------------------------- *)
\* the image the child runs once execvp has succeeded
C32_ShellImage == IF options.command THEN "shell -c command" ELSE "shell"

\* the child branch of run_script has ended without execvp
C32_EndedInBranch == child.image = "script" /\ child.pc \in {"exiting", "zombie", "reaped"}

\* the child is the program's own image only until the branch has run, and
\* then it is the shell, or it has exited with status 1
C32_ShellOrExitOne ==
    /\ child.pc = "running" => (child.image = C32_ShellImage /\ "c_execvp" \notin broken)
    /\ child.image = "script" => child.pc \in {"forked", "exiting", "zombie", "reaped"}
    /\ C32_EndedInBranch => child.status = [kind |-> "exited", code |-> 1]

\* the child branch is one step of the child: it changes nothing of the
\* parent, of the files or of the streams
C32_BranchStep ==
    (child.pc = "forked" /\ child'.pc # "forked")
    => /\ child'.pc \in {"running", "exiting"}
       /\ (child'.pc = "running") = (child'.image = C32_ShellImage)
       /\ (child'.pc = "exiting") = (child'.image = "script")
       /\ UNCHANGED <<pc, io, result, exit_code, fs, log_files, notices, stdout_data,
                      pty_out, pty_in, stdin, tty>>

\* C32: after the fork the child never runs the parent's loop and never returns
\* from run_script: it becomes the shell, with -c <command> when a command is
\* configured and without arguments otherwise, or it exits with status 1
C32_ChildExecsOrExits ==
    /\ []C32_ShellOrExitOne
    /\ [][C32_BranchStep]_vars

\* C32 witness: execvp failed, the child exited with status 1 after the eight
\* steps of its branch and the parent reaped it
C32_Witness ==
    /\ "c_execvp" \in broken
    /\ child.pc = "reaped"
    /\ child.image = "script"
    /\ child.steps = ChildSteps
    /\ child.status = [kind |-> "exited", code |-> 1]
    /\ io.exit_status = 1

(* ---------------------------------------------------------------------- *)
\* a step of the child branch fails in this run
C33_StepFails == broken \cap ChildFaults # {}

\* C33: the child runs its steps in the order close master, setsid, TIOCSCTTY,
\* dup2 to 0, 1 and 2, close slave, execvp, and the failure of any of them,
\* setsid and TIOCSCTTY included, ends the child with a non-zero status: the
\* target is never executed after a failed step
C33_FailedStepStopsChild ==
    /\ child.pc = "running" => (child.steps = ChildSteps /\ ~C33_StepFails)
    /\ (C33_StepFails /\ child.pc \in {"exiting", "zombie", "reaped"})
       => (child.status.kind = "exited" /\ child.status.code # 0)

====
